---- MODULE Spec2Model ----
(***************************************************************************)
(* Model of cltrecipes.py: the static recipe-site build.                   *)
(*                                                                         *)
(* Site.run reads the configuration, creates the in-memory table, parses   *)
(* and validates every recipe document, inserts the records, and renders   *)
(* the paginated front pages and one page per recipe.                      *)
(*                                                                         *)
(* TOML values are modelled as tagged values [t |-> type, v |-> payload];  *)
(* the payload is always a sequence of strings (a one-element sequence for *)
(* a scalar, the elements for an array, the keys in document order for a   *)
(* table).  A parsed document is a function from its keys to such values.  *)
(***************************************************************************)
EXTENDS Integers, Sequences, FiniteSets, TLC

\* ------------------------------------------------------------------ bounds

\* Largest number of recipe documents the glob finds (the example aside).
MaxFiles == 11
\* Longest list handed to chunk in the pagination specification.
MaxLen == 5
\* Largest page size handed to chunk in the pagination specification.
MaxPage == 3

\* --------------------------------------------------------- program constants

RECIPES_PER_PAGE == 10

REQUIRED_RECIPE_FIELDS ==
    <<"title", "date_added", "author", "type", "ingredients", "directions",
      "description">>

OPTIONAL_RECIPE_FIELDS ==
    <<"cook_time", "prep_time", "yield", "serving_size", "nutrition">>

NUTRITION_FIELDS ==
    {"calories", "total_fat", "saturated_fat", "trans_fat", "cholesterol",
     "sodium", "total_carbohydrates", "fiber", "sugars", "protein",
     "unsaturated_fat"}

\* The dates the build may run on.
Dates ==
    {[year |-> 2024, month |-> 2, day |-> 29],
     [year |-> 2026, month |-> 11, day |-> 2]}

TODAY_INT(d) == d.year * 10000 + d.month * 100 + d.day

\* A path ./recipes/<base>.toml, kept in its three parts.
RecipePath(base) == [dir |-> "./recipes/", base |-> base, ext |-> ".toml"]

EXAMPLE_RECIPE_PATH == RecipePath("_example")

\* ------------------------------------------------------------- TOML values

TomlStr(s) == [t |-> "str", v |-> <<s>>]
TomlInt(s) == [t |-> "int", v |-> <<s>>]
TomlDate(s) == [t |-> "date", v |-> <<s>>]
TomlList(xs) == [t |-> "list", v |-> xs]
TomlTable(keys) == [t |-> "table", v |-> keys]

\* isinstance(x, list)
IsList(x) == x.t = "list"

\* len(x) of a value that has a length
PyLen(x) == Len(x.v)

\* ---------------------------------------------------------------- errors

NoFile == [dir |-> "", base |-> "", ext |-> ""]

NoError == [kind |-> "none", names |-> "", file |-> NoFile]

Error(kind, names, file) == [kind |-> kind, names |-> names, file |-> file]

\* ------------------------------------------------- the documents on disk

\* Base names of the recipe documents, in glob order.
Names ==
    <<"r01", "r02", "r03", "r04", "r05", "r06", "r07", "r08", "r09", "r10",
      "r11", "r12", "r13", "r14", "r15", "r16">>

\* Ingredient entries (opaque to validation).
Pantry ==
    <<"flour", "egg", "salt", "sugar", "butter", "milk", "yeast", "rice",
      "beans", "onion", "garlic", "basil", "thyme", "honey", "cocoa", "lemon",
      "water">>

\* A document with every required field and nothing else.
FullDoc(i) ==
    [title |-> TomlStr(Names[i]),
     date_added |-> TomlDate("2020-01-15"),
     author |-> TomlStr("alice"),
     type |-> TomlStr("dessert"),
     ingredients |-> TomlList(<<Pantry[i], Pantry[i + 1]>>),
     directions |-> TomlStr("mix"),
     description |-> TomlStr("tasty")]

Drop(doc, keys) == [k \in DOMAIN doc \ keys |-> doc[k]]

With(doc, key, val) ==
    [k \in DOMAIN doc \cup {key} |-> IF k = key THEN val ELSE doc[k]]

RequiredSet == {REQUIRED_RECIPE_FIELDS[j] : j \in DOMAIN REQUIRED_RECIPE_FIELDS}

\* Nutrition tables: the keys in document order.
NutritionChoices ==
    {<<>>, <<"calories">>, <<"protein", "fiber">>, <<"vitamin_z">>,
     <<"calories", "vitamin_z">>, <<"vitamin_z", "fibre">>,
     <<"fibre", "calories", "vitamin_z">>}

IngredientChoices(i) ==
    {TomlList(<<Pantry[i]>>), TomlList(<<Pantry[i + 1], Pantry[i], Pantry[i]>>),
     TomlList(<<>>), TomlStr("flour"), TomlTable(<<"flour">>)}

\* Documents that lack one or two required fields, with or without a bad
\* nutrition table and an empty ingredients list behind the missing field.
MissingDocs(i) ==
    LET bad == With(With(FullDoc(i), "nutrition", TomlTable(<<"vitamin_z">>)),
                    "ingredients", TomlList(<<>>))
    IN  {Drop(FullDoc(i), m) :
             m \in {s \in SUBSET RequiredSet : Cardinality(s) \in 1..2}}
        \cup {Drop(bad, {f}) : f \in RequiredSet}
        \cup {Drop(bad, {"directions", f}) : f \in RequiredSet}

\* Documents with every required field: each ingredients value with each
\* nutrition table (or none).
CheckedDocs(i) ==
    LET ing == {With(FullDoc(i), "ingredients", x) : x \in IngredientChoices(i)}
    IN  ing \cup {With(d, "nutrition", TomlTable(n)) :
                      d \in ing, n \in NutritionChoices}

\* Valid documents carrying optional fields.
OptionalDocs(i) ==
    LET some == With(With(FullDoc(i), "cook_time", TomlInt("30")),
                     "yield", TomlStr("two loaves"))
        all4 == With(With(some, "prep_time", TomlInt("15")),
                     "serving_size", TomlStr("one slice"))
    IN  {some, all4,
         With(some, "nutrition", TomlTable(<<"calories">>)),
         With(all4, "nutrition", TomlTable(<<"calories", "protein">>))}

\* What open() and toml.load() make of a file.
Readable(doc) == [status |-> "ok", doc |-> doc]
Unopenable(doc) == [status |-> "noopen", doc |-> doc]
Unparsable(doc) == [status |-> "noparse", doc |-> doc]

FileChoices(i) ==
    {Readable(d) : d \in MissingDocs(i) \cup CheckedDocs(i) \cup OptionalDocs(i)}
        \cup {Unopenable(FullDoc(i)), Unparsable(FullDoc(i))}

\* The recipes directory as glob lists it: n documents, the example document
\* first when it is there, at most one document that is not the plain one.
PlainDir(n, example) ==
    (IF example
       THEN <<[path |-> EXAMPLE_RECIPE_PATH,
               file |-> Readable(Drop(FullDoc(1), {"title", "ingredients"}))]>>
       ELSE <<>>)
    \o [i \in 1..n |-> [path |-> RecipePath(Names[i]),
                        file |-> Readable(FullDoc(i))]]

\* Where the one other document sits among n: first, middle or last.
SpecialAt(n) == {k \in {1, n \div 2, n} : k \in 1..n}

Dirs ==
    LET plain == {<<n, e>> : n \in 0..MaxFiles, e \in BOOLEAN}
        off(e) == IF e THEN 1 ELSE 0
    IN  {PlainDir(x[1], x[2]) : x \in plain}
        \cup UNION {UNION {{[PlainDir(x[1], x[2]) EXCEPT ![k + off(x[2])].file = f] :
                              f \in FileChoices(k)} : k \in SpecialAt(x[1])} :
                    x \in plain}

\* glob.glob(RECIPES_PATH)
glob(dir) == [i \in DOMAIN dir |-> dir[i].path]

\* The file at a path of the directory.
FileAt(dir, path) ==
    dir[CHOOSE i \in DOMAIN dir : dir[i].path = path].file

\* ------------------------------------------------------------ open_toml

\* open_toml(filename): the parsed tree, or the error raised.
open_toml(filename, file) ==
    IF file.status = "noopen"
      THEN [err |-> Error("open", "", filename), out |-> <<>>]
    ELSE IF file.status = "noparse"
      THEN [err |-> Error("parse", "", filename), out |-> <<>>]
    ELSE [err |-> NoError, out |-> <<file.doc>>]

\* ---------------------------------------------------------- parse_recipe

\* os.path.basename(recipe_filename)[:-5]
StripToml(path) == path.base

\* The loop over REQUIRED_RECIPE_FIELDS from position k: the field whose
\* absence raises, "" when the loop ends without raising.
RECURSIVE MissingFrom(_, _)
MissingFrom(recipe, k) ==
    IF k > Len(REQUIRED_RECIPE_FIELDS) THEN ""
    ELSE IF REQUIRED_RECIPE_FIELDS[k] \notin DOMAIN recipe
      THEN REQUIRED_RECIPE_FIELDS[k]
    ELSE MissingFrom(recipe, k + 1)

\* The loop reporting the last missing field instead of the first.
MissingFieldLast(recipe) ==
    LET missing == {k \in DOMAIN REQUIRED_RECIPE_FIELDS :
                       REQUIRED_RECIPE_FIELDS[k] \notin DOMAIN recipe}
    IN  IF missing = {} THEN ""
        ELSE REQUIRED_RECIPE_FIELDS[CHOOSE k \in missing : \A j \in missing : j <= k]

MissingField(recipe) == MissingFrom(recipe, 1)

\* The loop over the nutrition table's keys from position k: the key that
\* raises, "" when the loop ends without raising.
RECURSIVE UnknownFrom(_, _)
UnknownFrom(macros, k) ==
    IF k > Len(macros) THEN ""
    ELSE IF macros[k] \notin NUTRITION_FIELDS THEN macros[k]
    ELSE UnknownFrom(macros, k + 1)

\* The nutrition check looking at the first key only.
UnknownMacroFirstKeyOnly(recipe) ==
    IF "nutrition" \in DOMAIN recipe /\ recipe["nutrition"].v # <<>>
         /\ recipe["nutrition"].v[1] \notin NUTRITION_FIELDS
      THEN recipe["nutrition"].v[1]
      ELSE ""

UnknownMacro(recipe) ==
    IF "nutrition" \in DOMAIN recipe
      THEN UnknownFrom(recipe["nutrition"].v, 1)
      ELSE ""

\* The ingredients check without the isinstance test.
IngredientsErrorLenOnly(recipe) ==
    IF PyLen(recipe["ingredients"]) = 0 THEN "ingredients_empty" ELSE ""

\* The two checks on recipe["ingredients"]: the kind of error raised, ""
\* when there is none.
IngredientsError(recipe) ==
    IF ~IsList(recipe["ingredients"]) THEN "ingredients_type"
    ELSE IF PyLen(recipe["ingredients"]) = 0 THEN "ingredients_empty"
    ELSE ""

\* parse_recipe(recipe_filename): the record in out, or the error raised.
parse_recipe(recipe_filename, file) ==
    LET opened == open_toml(recipe_filename, file) IN
    IF opened.err # NoError THEN opened
    ELSE
      LET recipe == With(opened.out[1], "filename",
                         TomlStr(StripToml(recipe_filename)))
      IN  IF MissingField(recipe) # ""
            THEN [err |-> Error("required", MissingField(recipe), recipe_filename),
                  out |-> <<>>]
          ELSE IF UnknownMacro(recipe) # ""
            THEN [err |-> Error("macro", UnknownMacro(recipe), recipe_filename),
                  out |-> <<>>]
          ELSE IF IngredientsError(recipe) # ""
            THEN [err |-> Error(IngredientsError(recipe), "", NoFile),
                  out |-> <<>>]
          ELSE [err |-> NoError, out |-> <<recipe>>]

\* ---------------------------------------------------------------- pickle

\* pickle.dumps of a list of strings: the opcode stream, each string
\* argument following its opcode.
RECURSIVE PickleItems(_, _)
PickleItems(xs, k) ==
    IF k > Len(xs) THEN <<>>
    ELSE <<"BINUNICODE", xs[k]>> \o PickleItems(xs, k + 1)

pickle_dumps(x) ==
    [t |-> "blob",
     v |-> <<"PROTO", "EMPTY_LIST">>
             \o (IF Len(x.v) = 0 THEN <<>>
                 ELSE IF Len(x.v) = 1 THEN PickleItems(x.v, 1) \o <<"APPEND">>
                 ELSE <<"MARK">> \o PickleItems(x.v, 1) \o <<"APPENDS">>)
             \o <<"STOP">>]

\* The unpickling machine: obj is the list under construction, stack the
\* strings pushed above it.
RECURSIVE Unpickle(_, _, _, _)
Unpickle(ops, k, obj, stack) ==
    IF k > Len(ops) \/ ops[k] = "STOP" THEN obj
    ELSE IF ops[k] = "BINUNICODE"
      THEN Unpickle(ops, k + 2, obj, Append(stack, ops[k + 1]))
    ELSE IF ops[k] = "APPEND"
      THEN Unpickle(ops, k + 1, Append(obj, stack[Len(stack)]),
                    SubSeq(stack, 1, Len(stack) - 1))
    ELSE IF ops[k] = "APPENDS"
      THEN Unpickle(ops, k + 1, obj \o stack, <<>>)
    ELSE IF ops[k] = "EMPTY_LIST"
      THEN Unpickle(ops, k + 1, <<>>, <<>>)
    ELSE Unpickle(ops, k + 1, obj, stack)

pickle_loads(blob) == TomlList(Unpickle(blob.v, 1, <<>>, <<>>))

\* ------------------------------------------------------------- the store

NULL == [t |-> "null", v |-> <<>>]

\* The Python values sqlite3 binds to a "?".
Bindable(x) == x.t \in {"str", "int", "blob", "null"}

\* The id a row inserted with id NULL gets.
NextRowId(db) ==
    IF db = <<>> THEN 1
    ELSE 1 + CHOOSE m \in {db[i].id : i \in DOMAIN db} :
                 \A i \in DOMAIN db : db[i].id <= m

\* UPDATE recipes SET field = value WHERE id = id
UpdateField(db, id, field, value) ==
    [i \in DOMAIN db |->
        IF db[i].id = id THEN [db[i] EXCEPT ![field] = value] ELSE db[i]]

\* The loop over OPTIONAL_RECIPE_FIELDS from position k.
RECURSIVE UpdateOptional(_, _, _, _)
UpdateOptional(db, recipe, recipe_id, k) ==
    IF k > Len(OPTIONAL_RECIPE_FIELDS) THEN [db |-> db, err |-> NoError]
    ELSE
      LET field == OPTIONAL_RECIPE_FIELDS[k] IN
      IF field \notin DOMAIN recipe
        THEN UpdateOptional(db, recipe, recipe_id, k + 1)
      ELSE IF ~Bindable(recipe[field])
        THEN [db |-> db, err |-> Error("bind", field, NoFile)]
      ELSE UpdateOptional(UpdateField(db, recipe_id, field, recipe[field]),
                          recipe, recipe_id, k + 1)

\* The row of the INSERT statement.
InsertedRow(db, recipe, date) ==
    [id |-> NextRowId(db),
     filename |-> recipe["filename"],
     title |-> recipe["title"],
     date_added |-> TODAY_INT(date),
     author |-> recipe["author"],
     type |-> recipe["type"],
     cook_time |-> NULL,
     prep_time |-> NULL,
     description |-> recipe["description"],
     ingredients |-> pickle_dumps(recipe["ingredients"]),
     yield |-> NULL,
     serving_size |-> NULL,
     directions |-> recipe["directions"],
     nutrition |-> NULL]

\* insert_recipe(recipe): the table afterwards and the error raised.
insert_recipe(db, recipe, date) ==
    LET row == InsertedRow(db, recipe, date) IN
    IF \E f \in {"title", "author", "type", "directions", "description"} :
           ~Bindable(recipe[f])
      THEN [db |-> db, err |-> Error("bind", "insert", NoFile)]
      ELSE UpdateOptional(Append(db, row), recipe, row.id, 1)

\* Rows in the order of the index on date_added DESC: date descending,
\* rowid ascending among equal dates.
RECURSIVE OrderByDateDesc(_)
OrderByDateDesc(rows) ==
    IF rows = {} THEN <<>>
    ELSE
      LET first == CHOOSE r \in rows : \A q \in rows :
                       \/ r.date_added > q.date_added
                       \/ r.date_added = q.date_added /\ r.id <= q.id
      IN  <<first>> \o OrderByDateDesc(rows \ {first})

SummaryColumns(r) ==
    [id |-> r.id, filename |-> r.filename, title |-> r.title,
     date_added |-> r.date_added, author |-> r.author,
     description |-> r.description]

\* The SELECT with equal dates coming out newest row first.
query_summaries_newest_first(db) ==
    [i \in DOMAIN db |-> SummaryColumns(db[Len(db) + 1 - i])]

\* The SELECT of write_front_pages.
query_summaries(db) ==
    LET ordered == OrderByDateDesc({db[i] : i \in DOMAIN db})
    IN  [i \in DOMAIN ordered |-> SummaryColumns(ordered[i])]

DetailColumns(r) ==
    [id |-> r.id, filename |-> r.filename, title |-> r.title,
     date_added |-> r.date_added, author |-> r.author,
     description |-> r.description, type |-> r.type,
     ingredients |-> r.ingredients, directions |-> r.directions]

\* The SELECT of write_recipe_pages (a scan of the table).
query_details(db) == [i \in DOMAIN db |-> DetailColumns(db[i])]

\* ----------------------------------------------------------------- chunk

Min(a, b) == IF a < b THEN a ELSE b

\* The generator from offset i: l[i:i+n], then the rest.
RECURSIVE ChunkFrom(_, _, _)
ChunkFrom(l, n, i) ==
    IF i >= Len(l) THEN <<>>
    ELSE <<SubSeq(l, i + 1, Min(i + n, Len(l)))>> \o ChunkFrom(l, n, i + n)

\* chunk with the range stopping at the last full page: a short last page
\* is dropped.
chunk_full_pages_only(l, n) ==
    [k \in 1..(Len(l) \div n) |-> SubSeq(l, (k - 1) * n + 1, k * n)]

\* list(chunk(l, n))
chunk(l, n) == ChunkFrom(l, n, 0)

\* ------------------------------------------------------- output artifacts

\* The name test made on a 0-based page index.
FrontPageNameZeroBased(page_idx) ==
    [stem |-> "index", num |-> IF page_idx = 0 THEN 0 ELSE page_idx,
     ext |-> ".html"]

\* "index.html" if page_idx == 1 else f"index{page_idx}.html"; num 0 stands
\* for the name without a number.
FrontPageName(page_idx) ==
    [stem |-> "index", num |-> IF page_idx = 1 THEN 0 ELSE page_idx,
     ext |-> ".html"]

\* f'recipe_{recipe["filename"]}.html'
RecipePageName(filename) ==
    [stem |-> "recipe_", of |-> filename.v[1], ext |-> ".html"]

\* dict(recipe) with the ingredients left as the stored blob.
RecipeContextRaw(row) == row

\* dict(recipe) with the ingredients unpickled.
RecipeContext(row) == [row EXCEPT !.ingredients = pickle_loads(@)]

\* ------------------------------------------------------------------ state

VARIABLES
    today,             \* datetime.date.today() at import
    conf_file,         \* what open_toml makes of CONF_PATH
    dir,               \* the recipes directory: <<[path, file], ...>>
    output_dir,        \* whether OUTPUT_PATH exists
    pc,                \* the statement Site.run is at
    error,             \* the exception that ended the run
    recipe_filenames,  \* parse_recipes: the paths to parse
    opened,            \* the recipe paths open_toml was called with
    parsed,            \* parse_recipes: the records built so far
    db,                \* the rows of table recipes, in rowid order
    loaded,            \* load_db: the number of insert_recipe calls made
    chunks,            \* write_front_pages: list(chunk(recipes, ...))
    cursor,            \* write_recipe_pages: the rows still to fetch
    front_pages,       \* the front-page files written, in order
    recipe_pages,      \* the recipe files written, in order
    ch_pc, ch_l, ch_n, ch_out   \* the pagination specification

site_vars ==
    <<today, conf_file, dir, output_dir, pc, error, recipe_filenames, opened,
      parsed, db, loaded, chunks, cursor, front_pages, recipe_pages>>

chunk_vars == <<ch_pc, ch_l, ch_n, ch_out>>

vars == <<site_vars, chunk_vars>>

\* The state of a Site before run() does anything.
Fresh ==
    /\ pc = "init_conf"
    /\ error = NoError
    /\ recipe_filenames = <<>>
    /\ opened = <<>>
    /\ parsed = <<>>
    /\ db = <<>>
    /\ loaded = 0
    /\ chunks = <<>>
    /\ cursor = <<>>
    /\ front_pages = <<>>
    /\ recipe_pages = <<>>

ChunkIdle == ch_pc = "off" /\ ch_l = <<>> /\ ch_n = 1 /\ ch_out = <<>>

Init ==
    /\ today \in Dates
    /\ conf_file \in {"ok", "noopen", "noparse"}
    /\ dir \in Dirs
    /\ output_dir \in BOOLEAN
    /\ Fresh
    /\ ChunkIdle

Abort(e) == pc' = "aborted" /\ error' = e

\* init_conf: open_toml(CONF_PATH)
InitConf ==
    /\ pc = "init_conf"
    /\ IF conf_file = "ok"
         THEN pc' = "init_jinja" /\ UNCHANGED error
         ELSE Abort(Error(IF conf_file = "noopen" THEN "open" ELSE "parse",
                          "", [dir |-> "./", base |-> "conf", ext |-> ".toml"]))
    /\ UNCHANGED <<today, conf_file, dir, output_dir, recipe_filenames, opened,
                   parsed, db, loaded, chunks, cursor, front_pages,
                   recipe_pages, chunk_vars>>

\* init_jinja: builds the template environment, touches nothing else.
InitJinja ==
    /\ pc = "init_jinja"
    /\ pc' = "init_db"
    /\ UNCHANGED <<today, conf_file, dir, output_dir, error, recipe_filenames,
                   opened, parsed, db, loaded, chunks, cursor, front_pages,
                   recipe_pages, chunk_vars>>

\* init_db: an empty table recipes with its index.
InitDb ==
    /\ pc = "init_db"
    /\ db' = <<>>
    /\ pc' = "parse_recipes"
    /\ UNCHANGED <<today, conf_file, dir, output_dir, error, recipe_filenames,
                   opened, parsed, loaded, chunks, cursor, front_pages,
                   recipe_pages, chunk_vars>>

\* list.remove(x): without the first occurrence of x, unchanged when absent.
Remove(xs, x) ==
    IF \E i \in DOMAIN xs : xs[i] = x
      THEN LET i == CHOOSE j \in DOMAIN xs :
                        xs[j] = x /\ \A k \in 1..(j - 1) : xs[k] # x
           IN  SubSeq(xs, 1, i - 1) \o SubSeq(xs, i + 1, Len(xs))
      ELSE xs

\* parse_recipes, up to the list comprehension.
ParseRecipes ==
    /\ pc = "parse_recipes"
    /\ recipe_filenames' = Remove(glob(dir), EXAMPLE_RECIPE_PATH)
    /\ pc' = IF recipe_filenames' = <<>> THEN "write_front_pages"
             ELSE "parse_recipe"
    /\ UNCHANGED <<today, conf_file, dir, output_dir, error, opened, parsed, db,
                   loaded, chunks, cursor, front_pages, recipe_pages,
                   chunk_vars>>

\* The list comprehension skipping a document that fails instead of raising.
ParseRecipeSkipping ==
    /\ pc = "parse_recipe"
    /\ LET filename == recipe_filenames[Len(opened) + 1]
           got == parse_recipe(filename, FileAt(dir, filename))
       IN  /\ opened' = Append(opened, filename)
           /\ parsed' = parsed \o got.out
           /\ pc' = IF Len(opened') < Len(recipe_filenames) THEN "parse_recipe"
                    ELSE IF parsed' = <<>> THEN "write_front_pages"
                    ELSE "insert_recipe"
    /\ UNCHANGED <<today, conf_file, dir, output_dir, error, recipe_filenames,
                   db, loaded, chunks, cursor, front_pages, recipe_pages,
                   chunk_vars>>

\* One round of the list comprehension of parse_recipes.
ParseRecipe ==
    /\ pc = "parse_recipe"
    /\ LET filename == recipe_filenames[Len(opened) + 1]
           got == parse_recipe(filename, FileAt(dir, filename))
       IN  /\ opened' = Append(opened, filename)
           /\ IF got.err # NoError
                THEN Abort(got.err) /\ UNCHANGED parsed
                ELSE /\ parsed' = Append(parsed, got.out[1])
                     /\ pc' = IF Len(opened') = Len(recipe_filenames)
                                THEN "insert_recipe" ELSE "parse_recipe"
                     /\ UNCHANGED error
    /\ UNCHANGED <<today, conf_file, dir, output_dir, recipe_filenames, db,
                   loaded, chunks, cursor, front_pages, recipe_pages,
                   chunk_vars>>

\* One round of the list comprehension of load_db.
InsertRecipe ==
    /\ pc = "insert_recipe"
    /\ LET got == insert_recipe(db, parsed[loaded + 1], today)
       IN  /\ db' = got.db
           /\ loaded' = loaded + 1
           /\ IF got.err # NoError
                THEN Abort(got.err)
                ELSE /\ pc' = IF loaded' = Len(parsed)
                                THEN "write_front_pages" ELSE "insert_recipe"
                     /\ UNCHANGED error
    /\ UNCHANGED <<today, conf_file, dir, output_dir, recipe_filenames, opened,
                   parsed, chunks, cursor, front_pages, recipe_pages,
                   chunk_vars>>

\* write_front_pages, up to its loop.
WriteFrontPages ==
    /\ pc = "write_front_pages"
    /\ chunks' = chunk(query_summaries(db), RECIPES_PER_PAGE)
    /\ pc' = IF chunks' = <<>> THEN "write_recipe_pages" ELSE "write_front_page"
    /\ UNCHANGED <<today, conf_file, dir, output_dir, error, recipe_filenames,
                   opened, parsed, db, loaded, cursor, front_pages,
                   recipe_pages, chunk_vars>>

\* write_front_page(page, page_idx, page_cnt) of one round of the loop.
write_front_page(chunk_list, page_idx, page_cnt) ==
    [name |-> FrontPageName(page_idx), template |-> "front_page.html",
     recipes |-> chunk_list, page_idx |-> page_idx, page_cnt |-> page_cnt]

WriteFrontPage ==
    /\ pc = "write_front_page"
    /\ LET page_idx == Len(front_pages) + 1
       IN  /\ front_pages' = Append(front_pages,
                  write_front_page(chunks[page_idx], page_idx, Len(chunks)))
           /\ pc' = IF page_idx = Len(chunks) THEN "write_recipe_pages"
                    ELSE "write_front_page"
    /\ output_dir' = TRUE
    /\ UNCHANGED <<today, conf_file, dir, error, recipe_filenames, opened,
                   parsed, db, loaded, chunks, cursor, recipe_pages, chunk_vars>>

\* write_recipe_pages, up to its loop.
WriteRecipePages ==
    /\ pc = "write_recipe_pages"
    /\ cursor' = query_details(db)
    /\ pc' = IF cursor' = <<>> THEN "done" ELSE "write_recipe_page"
    /\ UNCHANGED <<today, conf_file, dir, output_dir, error, recipe_filenames,
                   opened, parsed, db, loaded, chunks, front_pages,
                   recipe_pages, chunk_vars>>

\* The file one round of the loop of write_recipe_pages writes.
write_recipe_page(row) ==
    [name |-> RecipePageName(row.filename), template |-> "recipe.html",
     recipe |-> RecipeContext(row)]

WriteRecipePage ==
    /\ pc = "write_recipe_page"
    /\ recipe_pages' = Append(recipe_pages, write_recipe_page(Head(cursor)))
    /\ cursor' = Tail(cursor)
    /\ pc' = IF cursor' = <<>> THEN "done" ELSE "write_recipe_page"
    /\ output_dir' = TRUE
    /\ UNCHANGED <<today, conf_file, dir, error, recipe_filenames, opened,
                   parsed, db, loaded, chunks, front_pages, chunk_vars>>

Next ==
    \/ InitConf
    \/ InitJinja
    \/ InitDb
    \/ ParseRecipes
    \/ ParseRecipe
    \/ InsertRecipe
    \/ WriteFrontPages
    \/ WriteFrontPage
    \/ WriteRecipePages
    \/ WriteRecipePage

Spec == Init /\ [][Next]_vars

\* ------------------------------------------- the pagination specification

Lists == UNION {[1..k -> 1..3] : k \in 0..MaxLen}

ChunkInit ==
    /\ today = [year |-> 2026, month |-> 11, day |-> 2]
    /\ conf_file = "ok"
    /\ dir = <<>>
    /\ output_dir = FALSE
    /\ Fresh
    /\ ch_pc = "call"
    /\ ch_l \in Lists
    /\ ch_n \in 1..MaxPage
    /\ ch_out = <<>>

\* chunks = list(chunk(l, n))
ChunkCall ==
    /\ ch_pc = "call"
    /\ ch_out' = chunk(ch_l, ch_n)
    /\ ch_pc' = "done"
    /\ UNCHANGED <<ch_l, ch_n, site_vars>>

ChunkNext == ChunkCall

ChunkSpec == ChunkInit /\ [][ChunkNext]_vars

\* ================================================================ claims

Ceil(a, b) == (a + b - 1) \div b

RECURSIVE Concat(_)
Concat(ss) == IF ss = <<>> THEN <<>> ELSE Head(ss) \o Concat(Tail(ss))

\* C1: chunk splits a list of length N with page size P >= 1 into exactly
\* ceil(N/P) pages; every page but the last has exactly P entries, the last
\* page is not empty, and the pages joined in order are the list itself.
C1_Pagination ==
    ch_pc = "done" =>
        /\ Len(ch_out) = Ceil(Len(ch_l), ch_n)
        /\ \A k \in 1..(Len(ch_out) - 1) : Len(ch_out[k]) = ch_n
        /\ ch_out # <<>> => Len(ch_out[Len(ch_out)]) \in 1..ch_n
        /\ Concat(ch_out) = ch_l

\* C1 witness: a list split into several pages, the last one short.
C1_Witness ==
    /\ ch_pc = "done"
    /\ Len(ch_out) >= 2
    /\ Len(ch_out[Len(ch_out)]) < ch_n
    /\ \E i, j \in DOMAIN ch_l : ch_l[i] # ch_l[j]

\* What a path of the recipes directory holds.
SourceOf(path) == FileAt(dir, path)

\* The required fields a document lacks.
Lacking(doc) == {f \in RequiredSet : f \notin DOMAIN doc}

\* The nutrition keys of a document outside the vocabulary.
HasUnknownMacro(doc) ==
    /\ "nutrition" \in DOMAIN doc
    /\ \E k \in DOMAIN doc["nutrition"].v : doc["nutrition"].v[k] \notin NUTRITION_FIELDS

\* A non-empty list of ingredients.
GoodIngredients(doc) ==
    /\ "ingredients" \in DOMAIN doc
    /\ doc["ingredients"].t = "list"
    /\ doc["ingredients"].v # <<>>

\* A file that opens, parses and passes every validation rule.
ValidFile(file) ==
    /\ file.status = "ok"
    /\ Lacking(file.doc) = {}
    /\ ~HasUnknownMacro(file.doc)
    /\ GoodIngredients(file.doc)

NothingStoredOrWritten ==
    db = <<>> /\ loaded = 0 /\ front_pages = <<>> /\ recipe_pages = <<>>

\* C2: the documents are processed in order and the first one that fails to
\* open, parse or validate aborts the run: no later document is opened, no
\* row is inserted and no artifact is written; rows and artifacts exist only
\* once every document was parsed and validated.
C2_FailFast ==
    /\ \A i \in DOMAIN opened :
          /\ opened[i] = recipe_filenames[i]
          /\ \A j \in 1..(i - 1) : ValidFile(SourceOf(opened[j]))
    /\ (\E i \in DOMAIN opened : ~ValidFile(SourceOf(opened[i])))
          => pc = "aborted" /\ error # NoError /\ NothingStoredOrWritten
    /\ ~NothingStoredOrWritten
          => /\ Len(opened) = Len(recipe_filenames)
             /\ Len(parsed) = Len(recipe_filenames)
             /\ \A i \in DOMAIN recipe_filenames :
                    ValidFile(SourceOf(recipe_filenames[i]))

\* C2 witness: a run aborted at a document with documents before it parsed
\* and documents after it never opened.
C2_Witness ==
    /\ pc = "aborted"
    /\ Len(parsed) >= 1
    /\ Len(opened) = Len(parsed) + 1
    /\ Len(opened) < Len(recipe_filenames)
    /\ ~ValidFile(SourceOf(opened[Len(opened)]))
    /\ NothingStoredOrWritten

\* The first required field, in the order of REQUIRED_RECIPE_FIELDS, that a
\* document lacks.
FirstLacking(doc) ==
    REQUIRED_RECIPE_FIELDS[
        CHOOSE k \in DOMAIN REQUIRED_RECIPE_FIELDS :
            /\ REQUIRED_RECIPE_FIELDS[k] \in Lacking(doc)
            /\ \A j \in 1..(k - 1) : REQUIRED_RECIPE_FIELDS[j] \notin Lacking(doc)]

\* C3: a parsed document lacking a required field makes parse_recipe fail
\* with the required-field error naming the first field it lacks, in the
\* order of the required fields, and the file; whatever its nutrition table
\* and its ingredients are.
C3_RequiredFields ==
    \A i \in DOMAIN opened :
        LET file == SourceOf(opened[i]) IN
        (file.status = "ok" /\ Lacking(file.doc) # {})
            => /\ pc = "aborted"
               /\ i = Len(opened)
               /\ Len(parsed) = i - 1
               /\ error = Error("required", FirstLacking(file.doc), opened[i])

\* C3 witness: a document lacking two required fields, with an unknown
\* nutrition key and an empty ingredients list, was rejected for the earlier
\* of the two fields.
C3_Witness ==
    /\ pc = "aborted"
    /\ error.kind = "required"
    /\ opened # <<>>
    /\ LET doc == SourceOf(opened[Len(opened)]).doc
       IN  /\ Lacking(doc) = {"date_added", "directions"}
           /\ HasUnknownMacro(doc)
           /\ doc["ingredients"].v = <<>>
           /\ error.names = "date_added"

\* The first nutrition key of a document, in document order, outside the
\* vocabulary.
FirstUnknownMacro(doc) ==
    LET keys == doc["nutrition"].v
    IN  keys[CHOOSE k \in DOMAIN keys :
                 /\ keys[k] \notin NUTRITION_FIELDS
                 /\ \A j \in 1..(k - 1) : keys[j] \in NUTRITION_FIELDS]

\* C4: a document with every required field whose nutrition table has a key
\* outside the eleven-name vocabulary makes parse_recipe fail with the
\* macronutrient error naming the first such key and the file; the
\* macronutrient error is raised for no other document.
C4_NutritionVocabulary ==
    /\ Cardinality(NUTRITION_FIELDS) = 11
    /\ \A i \in DOMAIN opened :
        LET file == SourceOf(opened[i]) IN
        (file.status = "ok" /\ Lacking(file.doc) = {} /\ HasUnknownMacro(file.doc))
            => /\ pc = "aborted"
               /\ i = Len(opened)
               /\ Len(parsed) = i - 1
               /\ error = Error("macro", FirstUnknownMacro(file.doc), opened[i])
    /\ error.kind = "macro"
          => /\ opened # <<>>
             /\ HasUnknownMacro(SourceOf(opened[Len(opened)]).doc)

\* C4 witness: a table whose first key is in the vocabulary and whose second
\* is not was rejected for the second; and a document with a table of
\* known keys only got past the check.
C4_Witness ==
    /\ pc = "aborted"
    /\ error.kind = "macro"
    /\ error.names = "vitamin_z"
    /\ SourceOf(opened[Len(opened)]).doc["nutrition"].v = <<"calories", "vitamin_z">>

\* C4 second witness: a table of two unknown keys was rejected for the first.
C4_WitnessTwoUnknown ==
    /\ pc = "aborted"
    /\ error.kind = "macro"
    /\ error = Error("macro", "fibre", opened[Len(opened)])
    /\ SourceOf(opened[Len(opened)]).doc["nutrition"].v
          = <<"fibre", "calories", "vitamin_z">>

\* C5: a document whose ingredients are absent, not a list or an empty list
\* makes parse_recipe fail and yields no record; every record parse_recipe
\* returned has a list of at least one ingredient.
C5_Ingredients ==
    /\ \A i \in DOMAIN opened :
        LET file == SourceOf(opened[i]) IN
        (file.status = "ok" /\ ~GoodIngredients(file.doc))
            => /\ pc = "aborted"
               /\ error # NoError
               /\ i = Len(opened)
               /\ Len(parsed) = i - 1
    /\ \A i \in DOMAIN parsed :
          /\ parsed[i]["ingredients"].t = "list"
          /\ Len(parsed[i]["ingredients"].v) >= 1

\* C5 witness: a document with every required field, no nutrition table and
\* a string for its ingredients was rejected, after another was accepted.
C5_Witness ==
    /\ pc = "aborted"
    /\ error.kind = "ingredients_type"
    /\ parsed # <<>>
    /\ LET doc == SourceOf(opened[Len(opened)]).doc
       IN  doc["ingredients"] = TomlStr("flour") /\ "nutrition" \notin DOMAIN doc

\* C5 second witness: an empty list was rejected.
C5_WitnessEmpty ==
    /\ pc = "aborted"
    /\ error.kind = "ingredients_empty"
    /\ SourceOf(opened[Len(opened)]).doc["ingredients"] = TomlList(<<>>)

\* The document a stored filename comes from.
DocOf(filename) == SourceOf(RecipePath(filename.v[1])).doc

\* C6: the ingredients of every stored row unpickle to the ingredients of
\* the document with the row's filename, element for element and in order,
\* and so do the ingredients in every recipe page's render context.
C6_IngredientsRoundTrip ==
    /\ \A i \in DOMAIN db :
          pickle_loads(db[i].ingredients) = DocOf(db[i].filename)["ingredients"]
    /\ \A i \in DOMAIN recipe_pages :
          LET recipe == recipe_pages[i].recipe
          IN  recipe.ingredients = DocOf(recipe.filename)["ingredients"]

\* C6 witness: several recipe pages written, one of them for a document of
\* three ingredients with a repeated entry, another with other ingredients.
C6_Witness ==
    /\ pc = "done"
    /\ \E i, j \in DOMAIN recipe_pages :
          /\ Len(recipe_pages[i].recipe.ingredients.v) = 3
          /\ Len(recipe_pages[j].recipe.ingredients.v) = 2
          /\ recipe_pages[i].recipe.ingredients.v[2]
                = recipe_pages[i].recipe.ingredients.v[3]
          /\ recipe_pages[i].recipe.ingredients.v[1]
                # recipe_pages[i].recipe.ingredients.v[2]

\* C7: a build that ends without an error has written ceil(N/P) front pages
\* for its N documents, named index, index2, index3, ... without gaps, page
\* k rendered with the k-th run of P summaries (the last run shorter), with
\* page index k and the page count; and N recipe pages, exactly one named
\* recipe_<base name> for every document.
C7_ArtifactSet ==
    (pc = "done" /\ error = NoError) =>
        LET N == Len(recipe_filenames)
            P == RECIPES_PER_PAGE
            cnt == Ceil(N, P)
        IN  /\ Len(front_pages) = cnt
            /\ \A k \in DOMAIN front_pages :
                  LET page == front_pages[k] IN
                  /\ page.name = [stem |-> "index",
                                  num |-> IF k = 1 THEN 0 ELSE k,
                                  ext |-> ".html"]
                  /\ page.page_idx = k
                  /\ page.page_cnt = cnt
                  /\ Len(page.recipes) = IF k < cnt THEN P ELSE N - (cnt - 1) * P
                  /\ \A j \in DOMAIN page.recipes :
                        page.recipes[j].filename
                          = TomlStr(recipe_filenames[(k - 1) * P + j].base)
            /\ Len(recipe_pages) = N
            /\ \A i \in DOMAIN recipe_filenames :
                  Cardinality({j \in DOMAIN recipe_pages :
                      recipe_pages[j].name
                        = [stem |-> "recipe_", of |-> recipe_filenames[i].base,
                           ext |-> ".html"]}) = 1

\* C7 witness: a finished build of more documents than one page holds.
C7_Witness ==
    /\ pc = "done"
    /\ error = NoError
    /\ Len(recipe_filenames) > RECIPES_PER_PAGE
    /\ Len(front_pages) = 2
    /\ Len(front_pages[1].recipes) = RECIPES_PER_PAGE
    /\ Len(front_pages[2].recipes) = Len(recipe_filenames) - RECIPES_PER_PAGE
    /\ Len(recipe_pages) = Len(recipe_filenames)

OptionalSet == {OPTIONAL_RECIPE_FIELDS[j] : j \in DOMAIN OPTIONAL_RECIPE_FIELDS}

\* C8: insert_recipe does not fail on a record parse_recipe returned; every
\* call leaves one row of its own for the record, with each optional field
\* the record has persisted (nutrition as a blob) and the others unset.
C8_InsertAccepts ==
    /\ error.kind # "bind"
    /\ Len(db) = loaded
    /\ \A i \in 1..loaded :
          /\ db[i].id = i
          /\ db[i].filename = parsed[i]["filename"]
          /\ \A f \in OptionalSet :
                IF f \notin DOMAIN parsed[i] THEN db[i][f] = NULL
                ELSE IF f = "nutrition" THEN db[i][f].t = "blob"
                ELSE db[i][f] = parsed[i][f]

\* C9: the record a recipe page is rendered with has every required and
\* every optional attribute of its source document, the ingredients as a
\* list.
C9_FullDetailRecord ==
    \A i \in DOMAIN recipe_pages :
        LET recipe == recipe_pages[i].recipe
        IN  /\ recipe.ingredients.t = "list"
            /\ \A f \in (RequiredSet \cup OptionalSet)
                          \cap DOMAIN DocOf(recipe.filename) :
                  f \in DOMAIN recipe

====
